---- MODULE Spec2Model ----
(***************************************************************************)
(* Model of src/newsvendor.py: NewsvendorEnvironment, NewsvendorAgent and  *)
(* the driver simulate().                                                  *)
(*                                                                         *)
(* Number representation.  Python floats are modelled in fixed point:      *)
(*   - quantities (demand, order, sales, lost sales, waste, demand_mean,   *)
(*     demand_std) are integers counting TENTHS of a newspaper, so the     *)
(*     Python int 2 is 20 and the float 1.5 is 15;                         *)
(*   - prices are integers counting tenths of a dollar (0.5 is 5);         *)
(*   - profit is therefore an integer counting hundredths of a dollar.     *)
(* round() and int() are modelled by what they do (round half to even,     *)
(* truncate toward zero), never as the identity.                           *)
(***************************************************************************)
EXTENDS Integers, Sequences, FiniteSets, TLC

(* ------------------------------ bounds --------------------------------- *)
\* largest number of days passed to simulate()
MaxDays == 3
\* largest number of step() calls a client makes on one environment
MaxSteps == 2
\* largest number of observe() calls a client makes on one agent
MaxObs == 2
\* largest number of operations a caller performs on the value returned by
\* get_history()
MaxMutations == 2

(* --------------------------- input domains ----------------------------- *)
\* (purchase_price, selling_price, salvage_value) in tenths of a dollar.
\* The first is the default of __init__; the second is another setting with
\* selling > purchase > salvage; the others break that ordering.
ValidPrices ==
  { [pp |-> 5, sp |-> 10, sv |-> 2],
    [pp |-> 5, sp |-> 6,  sv |-> 1] }

DegeneratePrices ==
  { [pp |-> 5, sp |-> 5,  sv |-> 2],
    [pp |-> 5, sp |-> 4,  sv |-> 2],
    [pp |-> 5, sp |-> 5,  sv |-> 5],
    [pp |-> 5, sp |-> 10, sv |-> 5] }

PriceSettings == ValidPrices \cup DegeneratePrices

\* demand_mean in tenths: 0, 1.5 and 100
DemandMeans == {0, 15, 1000}

\* demand_std in tenths: 1.0
DemandStds == {10}

\* Standard normal deviates (in tenths) a Generator can produce; the draw of
\* rng.normal(mean, std) is mean + std * z.
Deviates == <<-20, -5, 5, 15>>

\* random_seed values for a seeded environment
Seeds == {0, 1}

\* order quantities a client passes to step(), in tenths
OrderInputs == {-10, 15}

\* demands a client passes to observe(), in tenths
ObserveInputs == {0, 500}

\* values a caller writes into the object returned by get_history()
CallerValues == {70}

Columns == {"demand", "order", "profit", "lost_sales", "waste"}

(* ------------------------- arithmetic helpers -------------------------- *)
Max(a, b) == IF a >= b THEN a ELSE b

Min(a, b) == IF a <= b THEN a ELSE b

\* Python round(x) of the rational num/den (den > 0): nearest integer, ties
\* to the even one.
RoundHalfEven(num, den) ==
  LET fl  == num \div den
      rem == num - fl * den
  IN  IF 2 * rem < den THEN fl
      ELSE IF 2 * rem > den THEN fl + 1
      ELSE IF fl % 2 = 0 THEN fl ELSE fl + 1

\* Python int(x) of the rational num/den (den > 0): truncation toward zero.
IntTrunc(num, den) ==
  IF num >= 0 THEN num \div den ELSE -((-num) \div den)

RECURSIVE SqrtSearch(_, _, _)
SqrtSearch(lo, hi, x) ==
  IF lo >= hi THEN lo
  ELSE LET mid == (lo + hi + 1) \div 2
       IN  IF mid * mid <= x THEN SqrtSearch(mid, hi, x)
           ELSE SqrtSearch(lo, mid - 1, x)

\* floor of the square root of x >= 0
ISqrt(x) == SqrtSearch(0, Min(x, 46340), x)

RECURSIVE SeqSum(_)
SeqSum(s) == IF s = <<>> THEN 0 ELSE Head(s) + SeqSum(Tail(s))

RECURSIVE SeqSumSq(_)
SeqSumSq(s) == IF s = <<>> THEN 0 ELSE Head(s) * Head(s) + SeqSumSq(Tail(s))

Last(s) == s[Len(s)]

(* ------------------------------- state --------------------------------- *)
VARIABLES
  purchase_price,   \* env.purchase_price (tenths of a dollar)
  selling_price,    \* env.selling_price
  salvage_value,    \* env.salvage_value
  demand_mean,      \* env.demand_mean (tenths)
  demand_std,       \* env.demand_std (tenths)
  rng,              \* env.rng: [seeded, state]
  history,          \* env.history: one sequence per column
  steps,            \* number of step() calls made on env so far
  observed_demand,  \* agent.observed_demand
  ret,              \* outcome of the last call: [op, arg, err, val]
  view,             \* what the caller of get_history() holds: "none",
                    \* or "env.history" (a reference to the dict itself)
  mutations,        \* operations the caller has performed on that value
  days,             \* simulate(): parameter days
  warmup_days,      \* simulate(): parameter warmup_days
  day,              \* simulate(): loop variable
  order_quantity,   \* simulate(): local order_quantity
  orderedBy,        \* simulate(): branch of line 140 taken, per period
  pc,               \* simulate(): position
  error,            \* exception that ended simulate(), "" if none
  run,              \* which call of simulate() is executing (1 or 2)
  first             \* history returned by the first call of simulate()

params == <<purchase_price, selling_price, salvage_value, demand_mean,
            demand_std>>

envVars == <<rng, history, steps>>

callerVars == <<view, mutations>>

driverVars == <<days, warmup_days, day, order_quantity, orderedBy, pc,
                error, run, first>>

vars == <<params, envVars, observed_demand, ret, callerVars, driverVars>>

(* ----------------------- NewsvendorEnvironment ------------------------- *)
EmptyHistory ==
  [demand |-> <<>>, order |-> <<>>, profit |-> <<>>,
   lost_sales |-> <<>>, waste |-> <<>>]

NoCall == [op |-> "none", arg |-> 0, err |-> "", val |-> <<>>]

\* np.random.default_rng(random_seed): None takes fresh OS entropy, an
\* integer fixes the stream.
DefaultRng(random_seed) ==
  IF random_seed = -1 THEN [seeded |-> FALSE, state |-> 0]
  ELSE [seeded |-> TRUE, state |-> random_seed]

\* rng.normal(mean, std): the set of <<draw, generator afterwards>> the call
\* can produce.  A seeded generator has one outcome, a function of its
\* state; an entropy-seeded one can produce any deviate.
Normal(g, mean, std) ==
  IF g.seeded
    THEN { << mean + (std * Deviates[(g.state % Len(Deviates)) + 1]) \div 10,
              [g EXCEPT !.state = (5 * g.state + 3) % 8] >> }
    ELSE { << mean + (std * Deviates[i]) \div 10, g >> :
              i \in 1..Len(Deviates) }

ClampDemandNoFloor(draw) == RoundHalfEven(draw, 10) * 10

\* generate_demand, line 40: max(0, int(round(demand)))
ClampDemand(draw) == Max(0, RoundHalfEven(draw, 10)) * 10

Sales(demand, q) == Min(demand, q)

LostSales(demand, q) == Max(0, demand - q)

WasteNoFloor(demand, q) == q - demand

Waste(demand, q) == Max(0, q - demand)

Profit(sales, q, waste, pp, sp, sv) == sales * sp - q * pp + waste * sv

AppendPeriodDropWaste(h, demand, q, profit, lost_sales, waste) ==
  [demand     |-> Append(h.demand, demand),
   order      |-> Append(h.order, q),
   profit     |-> Append(h.profit, profit),
   lost_sales |-> Append(h.lost_sales, lost_sales),
   waste      |-> IF h.waste = <<>> THEN <<waste>> ELSE <<waste>> \o Tail(h.waste)]

\* step, lines 63-68: the five appends
AppendPeriod(h, demand, q, profit, lost_sales, waste) ==
  [demand     |-> Append(h.demand, demand),
   order      |-> Append(h.order, q),
   profit     |-> Append(h.profit, profit),
   lost_sales |-> Append(h.lost_sales, lost_sales),
   waste      |-> Append(h.waste, waste)]

\* NewsvendorEnvironment.step(order_quantity).  There is no check of the
\* sign of order_quantity: every call draws a demand and records a period.
step(q) ==
  \E d \in Normal(rng, demand_mean, demand_std) :
    LET demand     == ClampDemand(d[1])
        sales      == Sales(demand, q)
        lost_sales == LostSales(demand, q)
        waste      == Waste(demand, q)
        profit     == Profit(sales, q, waste, purchase_price, selling_price,
                             salvage_value)
    IN  /\ rng' = d[2]
        /\ history' = AppendPeriod(history, demand, q, profit, lost_sales,
                                   waste)
        /\ steps' = steps + 1
        /\ ret' = [op |-> "step", arg |-> q, err |-> "",
                   val |-> <<profit, lost_sales, waste>>]

\* NewsvendorEnvironment.get_history(): returns self.history, the dict
\* itself, not a copy.
GetHistoryRef == "env.history"

(* --------------------------- NewsvendorAgent --------------------------- *)
\* agent.observe(demand)
observe(demand) == observed_demand' = Append(observed_demand, demand)

\* norm.ppf of the standard normal at num/den, in thousandths, for the
\* critical ratios the price settings produce (0.625 and 0.2).
StdNormalPpfMilli(num, den) ==
  CASE num * 8 = den * 5 -> 319
    [] num * 5 = den * 1 -> -842

\* what line 100 followed by lines 111-112 do for a non-degenerate sample:
\* "" when the ratio lies strictly between 0 and 1 and the quantile is
\* finite, otherwise the exception raised.
RatioError(underage_cost, overage_cost) ==
  LET total == underage_cost + overage_cost
  IN  IF total = 0 THEN "ZeroDivisionError"
      ELSE IF underage_cost = 0 \/ underage_cost = total THEN "OverflowError"
      ELSE IF underage_cost * total < 0 \/ underage_cost * total > total * total
             THEN "ValueError"
      ELSE ""

ColdStartOrderRounded(mean) == RoundHalfEven(mean, 10) * 10

\* line 95: int(self.env.demand_mean)
ColdStartOrder(mean) == IntTrunc(mean, 10) * 10

\* Lines 103-112 for a sample that is not constant and a ratio in (0,1):
\* mean and population standard deviation of the sample, then
\* max(0, int(round(norm.ppf(ratio, loc=mean, scale=std)))).
\* With n values x (tenths), S = sum x and V = n*sum x^2 - S^2, the mean is
\* S/n and the deviation sqrt(V)/n.  sqrt(V) is taken to a tenth of a tenth
\* and the quantile to a thousandth.
FittedOrder(obs, underage_cost, overage_cost) ==
  LET n  == Len(obs)
      S  == SeqSum(obs)
      V  == n * SeqSumSq(obs) - S * S
      zm == StdNormalPpfMilli(underage_cost, underage_cost + overage_cost)
      num == S * 10000 + zm * ISqrt(100 * V)
  IN  Max(0, RoundHalfEven(num, n * 100000)) * 10

\* NewsvendorAgent.calculate_order_quantity(): [err, val].  The order of the
\* tests is the code's: empty log (93), the division of line 100, std == 0
\* (107, int(mean) of a constant sample), then the quantile.
CalculateOrderQuantity(obs, mean, pp, sp, sv) ==
  LET underage_cost == sp - pp
      overage_cost  == pp - sv
      total         == underage_cost + overage_cost
      n             == Len(obs)
      V             == n * SeqSumSq(obs) - SeqSum(obs) * SeqSum(obs)
      e             == RatioError(underage_cost, overage_cost)
  IN  IF obs = <<>> THEN [err |-> "", val |-> ColdStartOrder(mean)]
      ELSE IF total = 0 THEN [err |-> "ZeroDivisionError", val |-> 0]
      ELSE IF V = 0 THEN [err |-> "", val |-> IntTrunc(SeqSum(obs), n * 10) * 10]
      ELSE IF e # "" THEN [err |-> e, val |-> 0]
      ELSE [err |-> "", val |-> FittedOrder(obs, underage_cost, overage_cost)]

(* ------------------------------ simulate ------------------------------- *)
IsWarmupInclusive(d, warmup) == d <= warmup

\* line 140: day < warmup_days
IsWarmup(d, warmup) == d < warmup

ObservedOrder(h) == Last(h.order)

\* line 151: env.history['demand'][-1]
ObservedValue(h) == Last(h.demand)

InitDriver ==
  /\ \E p \in PriceSettings :
       /\ purchase_price = p.pp
       /\ selling_price = p.sp
       /\ salvage_value = p.sv
  /\ demand_mean \in DemandMeans
  /\ demand_std \in DemandStds
  /\ days \in -1..MaxDays
  /\ warmup_days \in -1..(MaxDays + 1)
  /\ rng = DefaultRng(-1)
  /\ history = EmptyHistory
  /\ steps = 0
  /\ observed_demand = <<>>
  /\ ret = NoCall
  /\ view = "none"
  /\ mutations = 0
  /\ day = 0
  /\ order_quantity = 0
  /\ orderedBy = <<>>
  /\ pc = "entry"
  /\ error = ""
  /\ run = 1
  /\ first = EmptyHistory

\* lines 129-136: env = NewsvendorEnvironment(...) without random_seed,
\* agent = NewsvendorAgent(env).  No argument is validated.
Construct ==
  /\ pc = "entry"
  /\ rng' = DefaultRng(-1)
  /\ history' = EmptyHistory
  /\ steps' = 0
  /\ observed_demand' = <<>>
  /\ day' = 0
  /\ orderedBy' = <<>>
  /\ pc' = "loop"
  /\ UNCHANGED <<params, ret, callerVars, days, warmup_days, order_quantity,
                 error, run, first>>

\* lines 139-142: a warmup day orders demand_mean as passed
WarmupOrder ==
  /\ pc = "loop"
  /\ day < days
  /\ IsWarmup(day, warmup_days)
  /\ order_quantity' = demand_mean
  /\ orderedBy' = Append(orderedBy, "warmup")
  /\ pc' = "step"
  /\ UNCHANGED <<params, envVars, observed_demand, ret, callerVars, days,
                 warmup_days, day, error, run, first>>

\* lines 143-145: the agent decides; an exception ends the run
AgentOrder ==
  /\ pc = "loop"
  /\ day < days
  /\ ~IsWarmup(day, warmup_days)
  /\ LET r == CalculateOrderQuantity(observed_demand, demand_mean,
                                     purchase_price, selling_price,
                                     salvage_value)
     IN  /\ ret' = [op |-> "calculate_order_quantity", arg |-> 0,
                    err |-> r.err, val |-> <<r.val>>]
         /\ IF r.err = ""
              THEN /\ order_quantity' = r.val
                   /\ orderedBy' = Append(orderedBy, "agent")
                   /\ pc' = "step"
                   /\ error' = error
              ELSE /\ error' = r.err
                   /\ pc' = "failed"
                   /\ UNCHANGED <<order_quantity, orderedBy>>
  /\ UNCHANGED <<params, envVars, observed_demand, callerVars, days,
                 warmup_days, day, run, first>>

\* line 148: profit, lost_sales, waste = env.step(order_quantity)
SimulateStep ==
  /\ pc = "step"
  /\ step(order_quantity)
  /\ pc' = "observe"
  /\ UNCHANGED <<params, observed_demand, callerVars, days, warmup_days, day,
                 order_quantity, orderedBy, error, run, first>>

\* line 151, then the next iteration of the loop
SimulateObserve ==
  /\ pc = "observe"
  /\ observe(ObservedValue(history))
  /\ day' = day + 1
  /\ pc' = "loop"
  /\ UNCHANGED <<params, envVars, ret, callerVars, days, warmup_days,
                 order_quantity, orderedBy, error, run, first>>

\* lines 158-181 once range(days) is exhausted: the reductions over the
\* history, total_profit / days, return history
Summarize ==
  /\ pc = "loop"
  /\ ~(day < days)
  /\ view' = GetHistoryRef
  /\ IF days = 0
       THEN /\ error' = "ZeroDivisionError"
            /\ pc' = "failed"
            /\ ret' = ret
       ELSE /\ ret' = [op |-> "summary", arg |-> 0, err |-> "",
                       val |-> <<SeqSum(history.profit),
                                 SeqSum(history.lost_sales),
                                 SeqSum(history.waste)>>]
            /\ pc' = "returned"
            /\ error' = error
  /\ UNCHANGED <<params, envVars, observed_demand, mutations, days,
                 warmup_days, day, order_quantity, orderedBy, run, first>>

NextDriver ==
  \/ Construct
  \/ WarmupOrder
  \/ AgentOrder
  \/ SimulateStep
  \/ SimulateObserve
  \/ Summarize

Spec == InitDriver /\ [][NextDriver]_vars

(* --------------------- two calls of simulate() ------------------------- *)
\* one price setting and one mean; the same arguments are used by both calls
InitTwoRuns ==
  /\ InitDriver
  /\ purchase_price = 5 /\ selling_price = 10 /\ salvage_value = 2
  /\ demand_mean = 15
  /\ days >= 1 /\ warmup_days >= 0 /\ warmup_days <= days

\* the caller keeps the history the first call returned and calls
\* simulate() again with the same arguments
SecondRun ==
  /\ pc = "returned"
  /\ run = 1
  /\ first' = history
  /\ run' = 2
  /\ pc' = "entry"
  /\ UNCHANGED <<params, envVars, observed_demand, ret, callerVars, days,
                 warmup_days, day, order_quantity, orderedBy, error>>

NextTwoRuns ==
  \/ NextDriver
  \/ SecondRun

SpecTwoRuns == InitTwoRuns /\ [][NextTwoRuns]_vars

(* ------------------ a client of environment and agent ------------------ *)
InitClient ==
  /\ \E p \in PriceSettings :
       /\ purchase_price = p.pp
       /\ selling_price = p.sp
       /\ salvage_value = p.sv
  /\ demand_mean \in DemandMeans
  /\ demand_std \in DemandStds
  /\ \E random_seed \in {-1} \cup Seeds : rng = DefaultRng(random_seed)
  /\ history = EmptyHistory
  /\ steps = 0
  /\ observed_demand = <<>>
  /\ ret = NoCall
  /\ view = "none"
  /\ mutations = 0
  /\ days = 0
  /\ warmup_days = 0
  /\ day = 0
  /\ order_quantity = 0
  /\ orderedBy = <<>>
  /\ pc = "client"
  /\ error = ""
  /\ run = 1
  /\ first = EmptyHistory

\* env.step(q)
ClientStep ==
  /\ pc = "client"
  /\ steps < MaxSteps
  /\ \E q \in OrderInputs : step(q)
  /\ UNCHANGED <<params, observed_demand, callerVars, driverVars>>

\* agent.observe(d)
ClientObserve ==
  /\ pc = "client"
  /\ Len(observed_demand) < MaxObs
  /\ \E d \in ObserveInputs :
       /\ observe(d)
       /\ ret' = [op |-> "observe", arg |-> d, err |-> "", val |-> <<>>]
  /\ UNCHANGED <<params, envVars, callerVars, driverVars>>

\* agent.calculate_order_quantity()
ClientCalculate ==
  /\ pc = "client"
  /\ LET r == CalculateOrderQuantity(observed_demand, demand_mean,
                                     purchase_price, selling_price,
                                     salvage_value)
     IN  ret' = [op |-> "calculate_order_quantity", arg |-> 0,
                 err |-> r.err, val |-> <<r.val>>]
  /\ UNCHANGED <<params, envVars, observed_demand, callerVars, driverVars>>

\* env.get_history()
ClientGetHistory ==
  /\ pc = "client"
  /\ view' = GetHistoryRef
  /\ ret' = [op |-> "get_history", arg |-> 0, err |-> "", val |-> <<>>]
  /\ UNCHANGED <<params, envVars, observed_demand, mutations, driverVars>>

NextClient ==
  \/ ClientStep
  \/ ClientObserve
  \/ ClientCalculate
  \/ ClientGetHistory

SpecClient == InitClient /\ [][NextClient]_vars

(* ------------- a caller working on get_history()'s result -------------- *)
InitCaller ==
  /\ InitClient
  /\ purchase_price = 5 /\ selling_price = 10 /\ salvage_value = 2
  /\ demand_mean = 15

\* returned[col].append(v)
CallerAppend ==
  /\ view = "env.history"
  /\ mutations < MaxMutations
  /\ \E col \in Columns, v \in CallerValues :
       history' = [history EXCEPT ![col] = Append(@, v)]
  /\ mutations' = mutations + 1
  /\ UNCHANGED <<params, rng, steps, observed_demand, ret, view, driverVars>>

\* del returned[col][-1]
CallerDelete ==
  /\ view = "env.history"
  /\ mutations < MaxMutations
  /\ \E col \in Columns :
       /\ history[col] # <<>>
       /\ history' = [history EXCEPT ![col] = SubSeq(@, 1, Len(@) - 1)]
  /\ mutations' = mutations + 1
  /\ UNCHANGED <<params, rng, steps, observed_demand, ret, view, driverVars>>

\* returned[col][0] = v
CallerOverwrite ==
  /\ view = "env.history"
  /\ mutations < MaxMutations
  /\ \E col \in Columns, v \in CallerValues :
       /\ history[col] # <<>>
       /\ history' = [history EXCEPT ![col][1] = v]
  /\ mutations' = mutations + 1
  /\ UNCHANGED <<params, rng, steps, observed_demand, ret, view, driverVars>>

NextCaller ==
  \/ ClientStep
  \/ ClientGetHistory
  \/ CallerAppend
  \/ CallerDelete
  \/ CallerOverwrite

SpecCaller == InitCaller /\ [][NextCaller]_vars

(* ------------------------------ properties ----------------------------- *)
Periods == 1..Len(history.demand)

\* C1: every period recorded by step(q) with q >= 0 has
\* lost_sales = max(0, demand - q), waste = max(0, q - demand),
\* profit = sales*selling_price - q*purchase_price + waste*salvage_value with
\* sales = min(demand, q), hence sales + lost_sales = demand and
\* sales + waste = q; and step returns the profit, lost_sales and waste it
\* appended.
C1_StepAccounting ==
  /\ \A i \in Periods :
       LET d == history.demand[i]
           q == history.order[i]
           s == IF d <= q THEN d ELSE q
       IN  (q >= 0 /\ d >= 0) =>
             /\ history.lost_sales[i] = (IF d > q THEN d - q ELSE 0)
             /\ history.waste[i] = (IF q > d THEN q - d ELSE 0)
             /\ history.profit[i] = s * selling_price - q * purchase_price
                                      + history.waste[i] * salvage_value
             /\ s + history.lost_sales[i] = d
             /\ s + history.waste[i] = q
  /\ (ret.op = "step" /\ ret.arg >= 0) =>
       /\ Len(history.order) = steps
       /\ history.order[steps] = ret.arg
       /\ ret.val = <<history.profit[steps], history.lost_sales[steps],
                      history.waste[steps]>>

C1_Witness ==
  /\ ret.op = "step"
  /\ ret.arg >= 0
  /\ steps = 2
  /\ history.lost_sales[1] > 0
  /\ history.waste[2] > 0

\* C2 (as claimed): a call step(q) with q < 0 fails with InvalidOrderQuantity
\* and leaves every column of the history as it was.
C2_NegativeOrderRejected ==
  [][(steps' = steps + 1 /\ ret'.arg < 0) =>
       (ret'.err = "InvalidOrderQuantity" /\ history' = history)]_vars

\* C3: the history starts empty, all five columns always have the same
\* length, the number of step calls so far, and every transition either
\* leaves the history alone or is a step call that adds exactly one entry at
\* the end of each column and keeps every earlier entry in place.
C3_AppendOnly ==
  /\ history = EmptyHistory
  /\ [](\A c \in Columns : Len(history[c]) = steps)
  /\ [][\/ (history' = history /\ steps' = steps)
        \/ /\ steps' = steps + 1
           /\ \A c \in Columns :
                /\ Len(history'[c]) = Len(history[c]) + 1
                /\ SubSeq(history'[c], 1, Len(history[c])) = history[c]]_vars

C3_Witness ==
  /\ steps = 3
  /\ pc = "returned"
  /\ \A c \in Columns : Len(history[c]) = 3

\* C4: period i (0-based) is ordered by the warmup branch, with the
\* configured mean and without a call of calculate_order_quantity, when
\* i < warmup_days, and by the agent's calculate_order_quantity otherwise;
\* no warmup period follows an agent period; with warmup_days = days the
\* agent's function is never called.
C4_WarmupBoundary ==
  /\ \A i \in 1..Len(orderedBy) :
       orderedBy[i] = (IF i - 1 < warmup_days THEN "warmup" ELSE "agent")
  /\ \A i \in 1..Len(history.order) :
       IF orderedBy[i] = "warmup"
         THEN history.order[i] = demand_mean
         ELSE history.order[i] =
                CalculateOrderQuantity(SubSeq(history.demand, 1, i - 1),
                                       demand_mean, purchase_price,
                                       selling_price, salvage_value).val
  /\ \A i, j \in 1..Len(orderedBy) :
       (i < j /\ orderedBy[i] = "agent") => orderedBy[j] = "agent"
  /\ (day < warmup_days \/ warmup_days >= days) =>
       ret.op # "calculate_order_quantity"

C4_Witness ==
  /\ pc = "returned"
  /\ days = 3
  /\ warmup_days = 1
  /\ orderedBy = <<"warmup", "agent", "agent">>
  /\ history.demand[1] # history.demand[2]
  /\ history.order[3] # history.order[2]

\* C5 (as claimed): a run with warmup_days > days, days < 0 or
\* warmup_days < 0 fails with InvalidConfiguration before any period: no
\* step is taken and the history stays empty.
InvalidConfiguration == warmup_days > days \/ days < 0 \/ warmup_days < 0

C5_InvalidConfigurationRejected ==
  InvalidConfiguration =>
    /\ steps = 0
    /\ history = EmptyHistory
    /\ pc \in {"returned", "failed"} => error = "InvalidConfiguration"

\* C6: with valid parameters (integral demand_mean >= 0, demand_std >= 0,
\* selling > purchase > salvage >= 0, 0 <= warmup_days <= days) every
\* recorded period has demand, order, sales, lost_sales and waste >= 0.
ValidParameters ==
  /\ demand_mean >= 0
  /\ demand_mean % 10 = 0
  /\ demand_std >= 0
  /\ selling_price > purchase_price
  /\ purchase_price > salvage_value
  /\ salvage_value >= 0
  /\ 0 <= warmup_days
  /\ warmup_days <= days

C6_NonNegative ==
  ValidParameters =>
    \A i \in Periods :
      /\ history.demand[i] >= 0
      /\ history.order[i] >= 0
      /\ (IF history.demand[i] <= history.order[i]
            THEN history.demand[i] ELSE history.order[i]) >= 0
      /\ history.lost_sales[i] >= 0
      /\ history.waste[i] >= 0

C6_Witness ==
  /\ ValidParameters
  /\ pc = "returned"
  /\ orderedBy = <<"warmup", "agent", "agent">>
  /\ history.demand[1] = 0
  /\ history.demand[2] > 0

\* C7 (as claimed): two runs of simulate with the same parameters return
\* identical histories, column by column.
C7_Deterministic ==
  (run = 2 /\ pc = "returned") => history = first

\* C8 (as claimed): no operation a caller performs on the value returned by
\* get_history() changes the history held by the environment.
C8_HistoryNotExposed ==
  [][mutations' # mutations => history' = history]_vars

\* C9 (as claimed): with an empty observation log,
\* calculate_order_quantity returns exactly the configured demand_mean,
\* whatever the prices, and changes neither the log nor the history.
C9_ColdStartExact ==
  [][(ret' # ret /\ ret'.op = "calculate_order_quantity"
        /\ observed_demand = <<>>) =>
       /\ ret'.err = ""
       /\ ret'.val = <<demand_mean>>
       /\ observed_demand' = observed_demand
       /\ history' = history]_vars

\* C9 (amended): with an empty observation log, calculate_order_quantity
\* returns the configured demand_mean truncated to an integer (the mean
\* itself when it is integral), whatever the prices, and changes neither the
\* log nor the history.
C9_ColdStartTruncated ==
  [][(ret' # ret /\ ret'.op = "calculate_order_quantity"
        /\ observed_demand = <<>>) =>
       /\ ret'.err = ""
       /\ ret'.val = <<demand_mean - (demand_mean % 10)>>
       /\ (demand_mean % 10 = 0 => ret'.val = <<demand_mean>>)
       /\ observed_demand' = observed_demand
       /\ history' = history]_vars

C9_Witness ==
  /\ ret.op = "calculate_order_quantity"
  /\ observed_demand = <<>>
  /\ demand_mean = 15
  /\ ret.val = <<10>>
  /\ selling_price <= purchase_price
  /\ steps = 1

\* C10: in a run of simulate the observation log is the demand column of the
\* history after every completed period, so the order of period `day` is
\* decided on exactly the `day` demands of the periods before it; between
\* step and observe the log lacks only the demand just realized.
C10_ObservesDemand ==
  /\ pc \in {"loop", "step", "returned", "failed"} =>
       observed_demand = history.demand
  /\ pc \in {"loop", "step"} => Len(observed_demand) = day
  /\ pc = "observe" =>
       /\ Len(history.demand) = day + 1
       /\ observed_demand = SubSeq(history.demand, 1, day)

C10_Witness ==
  /\ pc = "step"
  /\ day = 2
  /\ orderedBy = <<"warmup", "agent", "agent">>
  /\ observed_demand[1] # observed_demand[2]
  /\ observed_demand[2] # history.order[2]

====
